---- MODULE Spec2Model ----
(***************************************************************************)
(* spond_attendance: the transform-and-deduplicate pipeline.               *)
(*                                                                         *)
(* Tables (pandas DataFrames) are sequences of records.  Calendar dates    *)
(* are day numbers.  The specifications share the variables:               *)
(*   Spec          the command-line runs over an input and an output       *)
(*                 directory                                               *)
(*   SpecDir       the runs over an input directory that also loses files  *)
(*   SpecRerun     the runs over an output directory that loses its state  *)
(*                 file                                                    *)
(*   SpecTable     the table functions (_deduplicate, merge_with_existing) *)
(*                 applied to tables drawn from bounded sets               *)
(*   SpecTransform transform_file applied to drawn wide tables             *)
(*   SpecSameDay   process_files applied to one drawn export with several  *)
(*                 sessions on one day                                     *)
(*   SpecFiles     parse_file_date and discover_files applied to drawn     *)
(*                 directory listings                                      *)
(*   SpecState     save_state and load_state on drawn sets of file names   *)
(*   SpecOutputs   generate_outputs applied to drawn detail tables         *)
(*   SpecMapping   apply_name_mappings applied to drawn tables and         *)
(*                 mapping tables                                          *)
(***************************************************************************)
EXTENDS Integers, Sequences, FiniteSets, TLC

VARIABLES
    inputDir,   \* names of the .xlsx files in the input directory
    today,      \* date.today()
    detail,     \* spond.csv: [exists, rows]
    rollup,     \* session_attendance.csv: [exists, rows]
    state,      \* .spond_state.json: [exists, processed_files]
    mappings,   \* session_name_mappings.csv as a dict raw -> parsed
    types,      \* session_types.csv as a dict session_name -> category
    lastRun,    \* what the run that just ended did (NoRun after any other step)
    failures,   \* how many runs the environment has made fail so far
    renamed,    \* history: some run wrote spond.csv under an active name mapping
    df,         \* SpecTable: a table tagged with _source_rank
    existing,   \* SpecTable: merge_with_existing's first argument
    new,        \* SpecTable: merge_with_existing's second argument
    out,        \* SpecTable: the table returned
    op,         \* the function applied ("none" before)
    wide,       \* SpecTransform: the wide table read from an export
    listing,    \* SpecFiles: directory.glob("*.xlsx"), in enumeration order
    saved,      \* SpecState: the set last passed to save_state
    frame       \* SpecOutputs: the table passed to generate_outputs

vars == <<inputDir, today, detail, rollup, state, mappings, types, lastRun, failures,
          renamed, df, existing, new, out, op, wide, listing, saved, frame>>
runVars ==
    <<inputDir, today, detail, rollup, state, mappings, types, lastRun, failures, renamed>>
tableVars == <<df, existing, new, out, op>>
argVars == <<wide, listing, saved, frame>>

----------------------------------------------------------------------------
(* Bounds *)

MaxRows == 3    \* rows of the tables SpecTable and SpecOutputs draw
MaxDay == 3     \* the last day the clock reaches in Spec
MaxFailures == 1   \* runs the environment makes fail in Spec
MaxCols == 2    \* columns after Name of the wide tables SpecTransform draws
MaxMembers == 2 \* rows after row 0 of the wide tables SpecTransform draws
MaxFiles == 3   \* entries of the directory listings SpecFiles draws

----------------------------------------------------------------------------
(* Values *)

\* pandas' missing value (float nan) in an object column
NaN == "<NaN>"

\* Code-point order of the strings the model uses (Python's str order).
Collation ==
    <<"", "Al", "Bo", "Cy", "Di", "NA", "Run", "Swim", "Swim!", "nan", "notes.xlsx",
      "old_spond_attendance_jan_25.xlsx", "spond_attendance_FEB_25.xlsx",
      "spond_attendance_apr_25.xlsx", "spond_attendance_dec_24.xlsx",
      "spond_attendance_feb_25.xlsx", "spond_attendance_jan_25.xlsx",
      "spond_attendance_sep_25.xlsx", "spond_attendance_sept_25.xlsx",
      "spond_attendance_xyz_25.xlsx", "~$spond_attendance_jan_25.xlsx">>

StrPos(s) == CHOOSE i \in 1..Len(Collation) : Collation[i] = s

\* Order of one sort key column; sort_values puts missing values last.
ValueLess(a, b) ==
    IF a = NaN THEN FALSE
    ELSE IF b = NaN THEN TRUE
    ELSE StrPos(a) < StrPos(b)

Weekdays == <<"Monday", "Tuesday", "Wednesday", "Thursday", "Friday",
              "Saturday", "Sunday">>

\* d.strftime("%A")
strftime_A(d) == Weekdays[(d % 7) + 1]

----------------------------------------------------------------------------
(* _deduplicate *)

\* subset=["name", "session_name", "session_date"]
Key(r) == <<r.name, r.session_name, r.session_date>>

RowsOf(t) == {t[i] : i \in DOMAIN t}

KeysOf(t) == {Key(t[i]) : i \in DOMAIN t}

\* mutant: the sort keys in the order name, session_name, session_date
SortKeyLess_name_first(a, b) ==
    \/ ValueLess(a.name, b.name)
    \/ /\ a.name = b.name
       /\ ValueLess(a.session_name, b.session_name)
    \/ /\ a.name = b.name
       /\ a.session_name = b.session_name
       /\ a.session_date < b.session_date

\* ascending order of sort_values(["session_date", "session_name", "name"])
SortKeyLess(a, b) ==
    \/ a.session_date < b.session_date
    \/ /\ a.session_date = b.session_date
       /\ ValueLess(a.session_name, b.session_name)
    \/ /\ a.session_date = b.session_date
       /\ a.session_name = b.session_name
       /\ ValueLess(a.name, b.name)

\* mutant: keep="last", the row of highest rank
FirstOfKey_keep_last(t, k) ==
    {r \in RowsOf(t) :
        /\ Key(r) = k
        /\ \A q \in RowsOf(t) : Key(q) = k => r._source_rank >= q._source_rank}

\* df.sort_values("_source_rank") then drop_duplicates(keep="first"): the sort is
\* numpy's quicksort, which is not stable, so rows of equal rank come out in any
\* order and the first row of a key is any of its rows of lowest rank.
FirstOfKey(t, k) ==
    {r \in RowsOf(t) :
        /\ Key(r) = k
        /\ \A q \in RowsOf(t) : Key(q) = k => r._source_rank <= q._source_rank}

RECURSIVE PickFirsts(_, _)
PickFirsts(t, K) ==
    IF K = {} THEN {{}}
    ELSE LET k == CHOOSE x \in K : TRUE
         IN {P \cup {r} : P \in PickFirsts(t, K \ {k}), r \in FirstOfKey(t, k)}

\* the sets of rows drop_duplicates can keep
drop_duplicates(t) == PickFirsts(t, KeysOf(t))

\* df.drop(columns=["_source_rank"])
drop_source_rank(r) ==
    [name |-> r.name, session_name |-> r.session_name,
     session_date |-> r.session_date,
     session_day_of_week |-> r.session_day_of_week, attended |-> r.attended]

\* mutant: today's sessions are kept
FilterPast_through_today(S, day) == {r \in S : r.session_date <= day}

\* df[df["session_date"] < today]
FilterPast(S, day) == {r \in S : r.session_date < day}

\* sort_values([...]).reset_index(drop=True) of rows with distinct keys
RECURSIVE sort_values(_)
sort_values(S) ==
    IF S = {} THEN <<>>
    ELSE LET m == CHOOSE r \in S : \A q \in S : q = r \/ SortKeyLess(r, q)
         IN <<m>> \o sort_values(S \ {m})

\* the tables _deduplicate(df) can return on day `day`
_deduplicate(t, day) ==
    {sort_values(FilterPast({drop_source_rank(r) : r \in kept}, day)) :
        kept \in drop_duplicates(t)}

\* existing["_source_rank"] = 0 ; new["_source_rank"] = 1
with_source_rank(r, rank) ==
    [name |-> r.name, session_name |-> r.session_name,
     session_date |-> r.session_date,
     session_day_of_week |-> r.session_day_of_week, attended |-> r.attended,
     _source_rank |-> rank]

TagAll(t, rank) == [i \in DOMAIN t |-> with_source_rank(t[i], rank)]

\* mutant: the new data gets rank 0 and the existing table rank 1
merge_with_existing_new_first(e, n, day) ==
    _deduplicate(TagAll(e, 1) \o TagAll(n, 0), day)

\* the tables merge_with_existing(existing, new) can return
merge_with_existing(e, n, day) ==
    _deduplicate(TagAll(e, 0) \o TagAll(n, 1), day)

----------------------------------------------------------------------------
(* Cells and text.  A text is a sequence of chunks; " " and "*" are chunks *)
(* of their own, so that strip and rstrip act on them.                     *)

StrCell(t) == [k |-> "str", t |-> t, n |-> 0]
IntCell(n) == [k |-> "int", t |-> <<>>, n |-> n]
NanCell == [k |-> "nan", t |-> <<>>, n |-> 0]
\* a float that is no whole number, in tenths: FloatCell(15) is 1.5
FloatCell(n) == [k |-> "float", t |-> <<>>, n |-> n]

RECURSIVE Join(_)
Join(t) == IF t = <<>> THEN "" ELSE t[1] \o Join(Tail(t))

\* str(x) of a cell value, as chunks
str(c) ==
    CASE c.k = "str" -> c.t
      [] c.k = "int" -> <<ToString(c.n)>>
      [] c.k = "float" -> <<ToString(c.n \div 10), ".", ToString(c.n % 10)>>
      [] OTHER -> <<"nan">>

RECURSIVE lstrip_ws(_)
lstrip_ws(t) == IF t # <<>> /\ t[1] = " " THEN lstrip_ws(Tail(t)) ELSE t

RECURSIVE rstrip_chunk(_, _)
rstrip_chunk(t, ch) ==
    IF t # <<>> /\ t[Len(t)] = ch THEN rstrip_chunk(SubSeq(t, 1, Len(t) - 1), ch)
    ELSE t

\* s.strip()
strip(t) == rstrip_chunk(lstrip_ws(t), " ")

\* str(df[col].iloc[0]).strip().rstrip("*").strip()
session_name_of(c) == Join(strip(rstrip_chunk(strip(str(c)), "*")))

\* texts pd.to_numeric parses, with their values
NumericText == [x \in {"0", "1", "2"} |-> CASE x = "0" -> 0 [] x = "1" -> 1 [] OTHER -> 2]

\* pd.to_numeric(x, errors="coerce").fillna(0).astype(int)
to_attended(c) ==
    CASE c.k = "int" -> c.n
      [] c.k = "float" -> c.n \div 10      \* astype(int) cuts the fraction off
      [] c.k = "str" /\ Join(strip(c.t)) \in DOMAIN NumericText ->
             NumericText[Join(strip(c.t))]
      [] OTHER -> 0

----------------------------------------------------------------------------
(* Column headers and _parse_session_column *)

DatetimeHeader(d, tm) ==
    [kind |-> "datetime", label |-> "", date |-> d, time |-> tm, suffix |-> 0]
\* a str header that is the ISO text of (d, tm), then ".sfx" when sfx > 0
IsoTextHeader(d, tm, sfx) ==
    [kind |-> "str", label |-> "", date |-> d, time |-> tm, suffix |-> sfx]
\* a str header that is no ISO text
LabelHeader(l) ==
    [kind |-> "str", label |-> l, date |-> 0, time |-> 0, suffix |-> 0]

None == [ok |-> FALSE, date |-> 0, time |-> 0]

_parse_session_column(col) ==
    CASE col.kind = "datetime" -> [ok |-> TRUE, date |-> col.date, time |-> col.time]
      [] col.kind = "str" ->
            \* re.sub(r"\.\d+$", "", col), then datetime.fromisoformat
            IF col.label = "" THEN [ok |-> TRUE, date |-> col.date, time |-> col.time]
            ELSE None
      [] OTHER -> None

\* A wide table is a sequence of columns [header, values]; values[1] is row 0.
\* session_info as the indices of the session columns, in column order
session_columns(t) ==
    SelectSeq([i \in DOMAIN t |-> i],
              LAMBDA i : _parse_session_column(t[i].header).ok)

_extract_session_info(t) ==
    [i \in RowsOf(session_columns(t)) |->
        [session_name |-> session_name_of(t[i].values[1]),
         session_date |-> _parse_session_column(t[i].header).date]]

NameColumn(t) == t[CHOOSE i \in DOMAIN t : t[i].header = LabelHeader("Name")]

DISCLAIMER_PREFIX == "*Attendance"

\* mutant: the disclaimer row is kept
IsMemberRow_keep_disclaimer(t, r) == NameColumn(t).values[r].k # "nan"

\* mutant: the rows without a name are kept
IsMemberRow_keep_missing(t, r) ==
    LET c == NameColumn(t).values[r]
    IN ~(str(c) # <<>> /\ str(c)[1] = DISCLAIMER_PREFIX)

\* attendance["Name"].notna() & ~attendance["Name"].astype(str).str.startswith(...)
IsMemberRow(t, r) ==
    LET c == NameColumn(t).values[r]
    IN /\ c.k # "nan"
       /\ ~(str(c) # <<>> /\ str(c)[1] = DISCLAIMER_PREFIX)

\* df.iloc[1:] filtered
member_rows(t) ==
    SelectSeq([i \in 1..(Len(NameColumn(t).values) - 1) |-> i + 1],
              LAMBDA r : IsMemberRow(t, r))

RECURSIVE Flatten(_)
Flatten(ss) == IF ss = <<>> THEN <<>> ELSE ss[1] \o Flatten(Tail(ss))

NoSessionColumns == "No session columns found in file"

\* transform_file: [error, rows]; melt lists column by column, row by row
transform_file(t) ==
    IF session_columns(t) = <<>> THEN [error |-> NoSessionColumns, rows |-> <<>>]
    ELSE LET info == _extract_session_info(t)
             cols == session_columns(t)
             rws == member_rows(t)
             rec(c, r) ==
                 [name |-> Join(str(NameColumn(t).values[r])),
                  session_name |-> info[c].session_name,
                  session_date |-> info[c].session_date,
                  session_day_of_week |-> strftime_A(info[c].session_date),
                  attended |-> to_attended(t[c].values[r])]
         IN [error |-> "",
             rows |-> Flatten([ci \in DOMAIN cols |->
                          [ri \in DOMAIN rws |-> rec(cols[ci], rws[ri])]])]

----------------------------------------------------------------------------
(* File names: parse_file_date, discover_files, find_new_files *)

MONTH_MAP ==
    [m \in {"jan", "feb", "mar", "apr", "may", "jun", "jul", "aug", "sep", "sept",
            "oct", "nov", "dec"} |->
        CASE m = "jan" -> 1 [] m = "feb" -> 2 [] m = "mar" -> 3 [] m = "apr" -> 4
          [] m = "may" -> 5 [] m = "jun" -> 6 [] m = "jul" -> 7 [] m = "aug" -> 8
          [] m = "sep" -> 9 [] m = "sept" -> 9 [] m = "oct" -> 10
          [] m = "nov" -> 11 [] OTHER -> 12]

\* The file names of the model, each cut at the places the pattern looks at:
\* <before> spond_attendance_ <letters> _ <digits> <extension>
FileNames ==
    {"spond_attendance_jan_25.xlsx", "spond_attendance_feb_25.xlsx",
     "spond_attendance_apr_25.xlsx", "notes.xlsx"}

\* the file names SpecFiles draws directory listings from
DrawnNames ==
    FileNames \cup
    {"spond_attendance_dec_24.xlsx", "spond_attendance_sep_25.xlsx",
     "spond_attendance_sept_25.xlsx", "spond_attendance_FEB_25.xlsx",
     "spond_attendance_xyz_25.xlsx", "old_spond_attendance_jan_25.xlsx",
     "~$spond_attendance_jan_25.xlsx"}

Conforming(mon, yy) ==
    [before |-> "", stem |-> "spond_attendance_", mon |-> mon, yy |-> yy,
     ext |-> ".xlsx"]

NameParts(f) ==
    CASE f = "spond_attendance_jan_25.xlsx" -> Conforming("jan", <<2, 5>>)
      [] f = "spond_attendance_feb_25.xlsx" -> Conforming("feb", <<2, 5>>)
      [] f = "spond_attendance_apr_25.xlsx" -> Conforming("apr", <<2, 5>>)
      [] f = "spond_attendance_dec_24.xlsx" -> Conforming("dec", <<2, 4>>)
      [] f = "spond_attendance_sep_25.xlsx" -> Conforming("sep", <<2, 5>>)
      [] f = "spond_attendance_sept_25.xlsx" -> Conforming("sept", <<2, 5>>)
      [] f = "spond_attendance_FEB_25.xlsx" -> Conforming("FEB", <<2, 5>>)
      [] f = "spond_attendance_xyz_25.xlsx" -> Conforming("xyz", <<2, 5>>)
      [] f = "old_spond_attendance_jan_25.xlsx" ->
            [Conforming("jan", <<2, 5>>) EXCEPT !.before = "old_"]
      [] f = "~$spond_attendance_jan_25.xlsx" ->
            [Conforming("jan", <<2, 5>>) EXCEPT !.before = "~$"]
      [] OTHER ->
            [before |-> "notes", stem |-> "", mon |-> "", yy |-> <<>>,
             ext |-> ".xlsx"]

\* mutant: the month token is looked up as written
lower_keep_case(m) == m

\* str.lower() of the month tokens of the model
lower(m) ==
    CASE m = "Jan" -> "jan" [] m = "FEB" -> "feb" [] m = "Sept" -> "sept"
      [] OTHER -> m

\* FILENAME_PATTERN.search(path.name): r"spond_attendance_([a-z]+)_(\d{2})\.xlsx$"
FILENAME_PATTERN_search(f) ==
    LET p == NameParts(f)
    IN /\ p.stem = "spond_attendance_"
       /\ p.mon # ""
       /\ Len(p.yy) = 2
       /\ p.ext = ".xlsx"

\* parse_file_date: [error, year, month, day]
parse_file_date(f) ==
    LET p == NameParts(f)
    IN IF ~FILENAME_PATTERN_search(f)
       THEN [error |-> "Filename does not match expected pattern: " \o f,
             year |-> 0, month |-> 0, day |-> 0]
       ELSE IF lower(p.mon) \notin DOMAIN MONTH_MAP
       THEN [error |-> "Unrecognized month abbreviation: " \o p.mon,
             year |-> 0, month |-> 0, day |-> 0]
       ELSE [error |-> "", year |-> 2000 + (10 * p.yy[1] + p.yy[2]),
             month |-> MONTH_MAP[lower(p.mon)], day |-> 1]

DateLeq(a, b) ==
    \/ a.year < b.year
    \/ a.year = b.year /\ a.month < b.month
    \/ a.year = b.year /\ a.month = b.month /\ a.day <= b.day

\* mutant: a file goes before the files of its date already placed
Insert_before_ties(sorted_files, f) ==
    LET k == Cardinality({i \in DOMAIN sorted_files :
                 /\ DateLeq(parse_file_date(sorted_files[i]), parse_file_date(f))
                 /\ ~DateLeq(parse_file_date(f), parse_file_date(sorted_files[i]))})
    IN SubSeq(sorted_files, 1, k) \o <<f>> \o
       SubSeq(sorted_files, k + 1, Len(sorted_files))

\* f placed after the files that are not younger: the sort is stable
Insert(sorted_files, f) ==
    LET k == Cardinality({i \in DOMAIN sorted_files :
                 DateLeq(parse_file_date(sorted_files[i]), parse_file_date(f))})
    IN SubSeq(sorted_files, 1, k) \o <<f>> \o
       SubSeq(sorted_files, k + 1, Len(sorted_files))

\* files.sort(key=parse_file_date)
RECURSIVE sort_by_date(_)
sort_by_date(files) ==
    IF files = <<>> THEN <<>>
    ELSE Insert(sort_by_date(SubSeq(files, 1, Len(files) - 1)), files[Len(files)])

\* mutant: the files that do not parse are left out and the others returned
discover_entries_skip_unexpected(entries) ==
    [error |-> "", unexpected |-> {},
     files |-> sort_by_date(SelectSeq(entries, LAMBDA f :
                  NameParts(f).before # "~$" /\ parse_file_date(f).error = ""))]

\* the body of discover_files on the entries directory.glob("*.xlsx") gives, in
\* the order it gives them: [error, unexpected, files]
discover_entries(entries) ==
    LET kept == SelectSeq(entries, LAMBDA f : NameParts(f).before # "~$")
        unexpected == {f \in RowsOf(kept) : parse_file_date(f).error # ""}
    IN IF unexpected # {}
       THEN [error |-> "Unexpected xlsx file(s) in directory",
             unexpected |-> unexpected, files |-> <<>>]
       ELSE [error |-> "", unexpected |-> {}, files |-> sort_by_date(kept)]

\* directory.glob("*.xlsx"): the file system chooses the order of the entries
RECURSIVE glob(_)
glob(dir) ==
    LET xlsx == {f \in dir : NameParts(f).ext = ".xlsx"}
    IN IF xlsx = {} THEN {<<>>}
       ELSE UNION {{Append(g, f) : g \in glob(xlsx \ {f})} : f \in xlsx}

\* discover_files: [error, unexpected, files], files the set of possible listings
discover_files(dir) ==
    LET found == {discover_entries(g) : g \in glob(dir)}
        any == CHOOSE o \in found : TRUE
    IN [error |-> any.error, unexpected |-> any.unexpected,
        files |-> IF any.error # "" THEN {} ELSE {o.files : o \in found}]

\* mutant: the processed set is ignored
find_new_files_all(all_files, processed) == all_files

\* find_new_files
find_new_files(all_files, processed) ==
    SelectSeq(all_files, LAMBDA f : f \notin processed)

----------------------------------------------------------------------------
(* The state file *)

RECURSIVE sorted(_)
sorted(S) ==
    IF S = {} THEN <<>>
    ELSE LET m == CHOOSE x \in S : \A y \in S : StrPos(x) <= StrPos(y)
         IN <<m>> \o sorted(S \ {m})

NoFile == [exists |-> FALSE, rows |-> <<>>]

\* mutant: the last name of the list is not read
load_state_but_last(st) ==
    IF ~st.exists THEN {} ELSE {st.rows[i] : i \in 1..(Len(st.rows) - 1)}

\* load_state
load_state(st) == IF ~st.exists THEN {} ELSE RowsOf(st.rows)

\* save_state: the file written
save_state(processed_files) == [exists |-> TRUE, rows |-> sorted(processed_files)]

----------------------------------------------------------------------------
(* spond.csv: DataFrame.to_csv and pd.read_csv *)

\* the texts read_csv takes for a missing value (those the model can meet)
NA_VALUES == {"", "NA", "nan", "NaN", "null", "None"}

\* to_csv writes a missing value as the empty text
to_csv_value(v) == IF v = NaN THEN "" ELSE v

\* read_csv of an object column
read_csv_value(x) == IF x \in NA_VALUES THEN NaN ELSE x

to_csv_row(r) ==
    [name |-> to_csv_value(r.name),
     session_name |-> to_csv_value(r.session_name),
     session_date |-> r.session_date,
     session_day_of_week |-> to_csv_value(r.session_day_of_week),
     attended |-> r.attended]

read_csv_row(r) ==
    [name |-> read_csv_value(r.name),
     session_name |-> read_csv_value(r.session_name),
     session_date |-> r.session_date,
     session_day_of_week |-> read_csv_value(r.session_day_of_week),
     attended |-> r.attended]

\* df.to_csv(detail_path, sep="|", index=False): the file written
to_csv(t) == [exists |-> TRUE, rows |-> [i \in DOMAIN t |-> to_csv_row(t[i])]]

\* pd.read_csv(existing_csv, sep="|", parse_dates=["session_date"])
read_csv(file) == [i \in DOMAIN file.rows |-> read_csv_row(file.rows[i])]

----------------------------------------------------------------------------
(* generate_outputs *)

RECURSIVE SumAttended(_)
SumAttended(t) == IF t = <<>> THEN 0 ELSE t[1].attended + SumAttended(Tail(t))

GroupKey(r) ==
    [session_name |-> r.session_name, session_date |-> r.session_date,
     session_day_of_week |-> r.session_day_of_week]

\* groupby([...])["attended"].sum().reset_index(); groupby drops missing keys
session_groups(t) ==
    {[session_name |-> g.session_name, session_date |-> g.session_date,
      session_day_of_week |-> g.session_day_of_week,
      attended |-> SumAttended(SelectSeq(t, LAMBDA r : GroupKey(r) = g))] :
        g \in {GroupKey(r) : r \in {x \in RowsOf(t) :
                  x.session_name # NaN /\ x.session_day_of_week # NaN}}}

RollupLess(a, b) ==
    \/ a.session_date < b.session_date
    \/ /\ a.session_date = b.session_date
       /\ ValueLess(a.session_name, b.session_name)

\* .sort_values(["session_date", "session_name"])
RECURSIVE sort_rollup(_)
sort_rollup(S) ==
    IF S = {} THEN <<>>
    ELSE LET m == CHOOSE r \in S : \A q \in S : q = r \/ RollupLess(r, q)
         IN <<m>> \o sort_rollup(S \ {m})

\* the session summary written to session_attendance.csv
session_attendance(t) == [exists |-> TRUE, rows |-> sort_rollup(session_groups(t))]

----------------------------------------------------------------------------
(* Session name mapping *)

SKIP_SENTINEL == "__SKIP__"

EmptyDict == [x \in {} |-> ""]

\* load_canonical_names: set(df["session_name"].dropna().unique())
load_canonical_names(ty) == {read_csv_value(k) : k \in DOMAIN ty} \ {NaN}

\* find_unmapped_names
find_unmapped_names(session_names, m, known_canonical) ==
    (session_names \ DOMAIN m) \ known_canonical

\* prompt_user_approval: responses[raw] is what the user types for raw
approved_of(suggestions, responses) ==
    [raw \in {x \in DOMAIN suggestions : responses[x] \notin {"s", "S"}} |->
        IF responses[raw] = "" THEN suggestions[raw] ELSE responses[raw]]

skipped_of(suggestions, responses) ==
    {x \in DOMAIN suggestions : responses[x] \in {"s", "S"}}

\* mappings.update(approved); for name in skipped: mappings[name] = SKIP_SENTINEL
update_mappings(m, approved, skipped) ==
    [x \in skipped |-> SKIP_SENTINEL] @@ approved @@ m

\* mutant: the skip sentinel is written as a name
apply_name_mappings_with_skipped(t, m) ==
    [i \in DOMAIN t |->
        IF t[i].session_name \in DOMAIN m
        THEN [t[i] EXCEPT !.session_name = m[t[i].session_name]]
        ELSE t[i]]

\* apply_name_mappings: Series.replace(active) looks every name up once
apply_name_mappings(t, m) ==
    LET active == {x \in DOMAIN m : m[x] # SKIP_SENTINEL}
    IN IF active = {} THEN t
       ELSE [i \in DOMAIN t |->
               IF t[i].session_name \in active
               THEN [t[i] EXCEPT !.session_name = m[t[i].session_name]]
               ELSE t[i]]

\* sorted(names) raises TypeError when a missing name (a float) is compared with
\* a text
sorted_raises(names) == NaN \in names /\ names # {NaN}

TypeError == "'<' not supported between instances of 'float' and 'str'"

HasActive(m) == \E x \in DOMAIN m : m[x] # SKIP_SENTINEL

session_names_of(t) == {t[i].session_name : i \in DOMAIN t}

----------------------------------------------------------------------------
(* The exports in the model.  Sessions are on day 1 and day 2.  The        *)
(* December export has one session column whose row-0 cell is empty.       *)

NameHeader == LabelHeader("Name")

\* read_attendance_file(path): pd.read_excel of the file
read_attendance_file(f) ==
    CASE f = "spond_attendance_jan_25.xlsx" ->
            <<[header |-> NameHeader,
               values |-> <<NanCell, StrCell(<<"Al">>), StrCell(<<"Bo">>)>>],
              [header |-> LabelHeader("Group"),
               values |-> <<NanCell, StrCell(<<"A">>), NanCell>>],
              [header |-> DatetimeHeader(1, 18),
               values |-> <<StrCell(<<"Swim", "*">>), IntCell(1), IntCell(1)>>],
              [header |-> DatetimeHeader(2, 18),
               values |-> <<StrCell(<<"Run">>), IntCell(1), NanCell>>]>>
      [] f = "spond_attendance_feb_25.xlsx" ->
            <<[header |-> NameHeader,
               values |-> <<NanCell, StrCell(<<"Al">>),
                            StrCell(<<"*Attendance", " is recorded by hosts">>)>>],
              [header |-> DatetimeHeader(1, 18),
               values |-> <<StrCell(<<" ", "Swim">>), IntCell(0), NanCell>>],
              [header |-> DatetimeHeader(1, 9),
               values |-> <<StrCell(<<"Swim!">>), StrCell(<<"1">>), NanCell>>]>>
      [] f = "spond_attendance_dec_24.xlsx" ->
            <<[header |-> NameHeader, values |-> <<NanCell, StrCell(<<"Al">>)>>],
              [header |-> DatetimeHeader(1, 18),
               values |-> <<NanCell, IntCell(1)>>]>>
      [] OTHER ->
            <<[header |-> NameHeader, values |-> <<NanCell, StrCell(<<"Al">>)>>],
              [header |-> LabelHeader("Group"),
               values |-> <<NanCell, StrCell(<<"A">>)>>]>>

\* transform_file(read_attendance_file(path)) of every file of the model
Frames ==
    [f \in FileNames \cup {"spond_attendance_dec_24.xlsx"} |->
        transform_file(read_attendance_file(f))]

\* mutant: the newest file gets rank 0
process_files_newest_first(files, day) ==
    LET frames == [i \in DOMAIN files |-> Frames[files[i]]]
        combined == Flatten([i \in DOMAIN files |->
                                TagAll(frames[i].rows, Len(files) - i)])
    IN IF \E i \in DOMAIN files : frames[i].error # ""
       THEN [error |-> NoSessionColumns, tables |-> {}]
       ELSE [error |-> "", tables |-> _deduplicate(combined, day)]

\* mutant: a file without session columns is skipped
process_files_skip_invalid(files, day) ==
    LET frames == [i \in DOMAIN files |-> Frames[files[i]]]
        combined == Flatten([i \in DOMAIN files |-> TagAll(frames[i].rows, i - 1)])
    IN [error |-> "", tables |-> _deduplicate(combined, day)]

\* process_files: [error, tables]; tables are those _deduplicate can return
process_files(files, day) ==
    LET frames == [i \in DOMAIN files |-> Frames[files[i]]]
        combined == Flatten([i \in DOMAIN files |-> TagAll(frames[i].rows, i - 1)])
    IN IF \E i \in DOMAIN files : frames[i].error # ""
       THEN [error |-> NoSessionColumns, tables |-> {}]
       ELSE [error |-> "", tables |-> _deduplicate(combined, day)]

----------------------------------------------------------------------------
(* The enrichment collaborator (the claude CLI) and the user at the prompt *)

Reply(e, d) == [error |-> e, dict |-> d]

\* subprocess.TimeoutExpired, RuntimeError("Claude CLI failed"), ValueError
\* ("Could not parse JSON"), or the dict parsed from the reply
CollaboratorFailures ==
    {Reply("TimeoutExpired", EmptyDict), Reply("Claude CLI failed", EmptyDict),
     Reply("Could not parse JSON", EmptyDict)}

MappingReplies ==
    CollaboratorFailures \cup {Reply("", EmptyDict)}
    \cup {Reply("", [x \in {"Swim!"} |-> "Swim"])}

CategoryReplies ==
    CollaboratorFailures \cup {Reply("", EmptyDict), Reply("", [x \in {"Swim"} |-> "Swim"])}

\* what the user types at a prompt: Enter (accept) or s (skip)
Responses == {"", "s"}

----------------------------------------------------------------------------
(* main: one run of the command line *)

\* the outcomes of a run that the environment made fail
FailureOutcomes == {"stopped", "suggest_mappings raised", "suggest_categories raised"}

\* the replies the collaborator can give while failures are left in the bound
CollaboratorReplies(replies) ==
    IF failures < MaxFailures THEN replies ELSE replies \ CollaboratorFailures

NoRun ==
    [outcome |-> "none", full_refresh |-> FALSE, processed |-> <<>>, wrote |-> {}]

RunRecord(outcome, fr, nl, processed, wrote) ==
    [outcome |-> outcome, full_refresh |-> fr, processed |-> processed,
     wrote |-> wrote]

Finish(d, r, st, m, ty, lr) ==
    /\ detail' = d
    /\ rollup' = r
    /\ state' = st
    /\ mappings' = m
    /\ types' = ty
    /\ lastRun' = lr
    /\ failures' = IF lr.outcome \in FailureOutcomes THEN failures + 1 ELSE failures
    /\ renamed' = (renamed \/ ("detail" \in lr.wrote /\ HasActive(m)))
    /\ UNCHANGED <<inputDir, today>>
    /\ UNCHANGED tableVars
    /\ UNCHANGED argVars

\* the run ends before generate_outputs
Stop(outcome, fr, nl, processed, m, ty, wrote) ==
    Finish(detail, rollup, state, m, ty, RunRecord(outcome, fr, nl, processed, wrote))

\* mutant: an incremental run records its own batch only
all_processed_batch_only(fr, all_files, files_to_process) ==
    IF fr THEN RowsOf(all_files) ELSE RowsOf(files_to_process)

\* mutant: a full refresh keeps the recorded names too
all_processed_keep_recorded(fr, all_files, files_to_process) ==
    load_state(state) \cup RowsOf(files_to_process)

\* the files that are now accounted for
all_processed(fr, all_files, files_to_process) ==
    IF fr THEN RowsOf(all_files) ELSE load_state(state) \cup RowsOf(files_to_process)

\* generate_outputs, then save_state; a write can fail (or the process be
\* stopped) before session_attendance.csv or before the state file is written
OutputStep(fr, nl, ftp, all_files, result, m, ty, wrote) ==
    \E stop \in IF failures < MaxFailures
                 THEN {"", "session_attendance.csv", ".spond_state.json"}
                 ELSE {""} :
        CASE stop = "session_attendance.csv" ->
                Finish(to_csv(result), rollup, state, m, ty,
                       RunRecord("stopped", fr, nl, ftp, wrote \cup {"detail"}))
          [] stop = ".spond_state.json" ->
                Finish(to_csv(result), session_attendance(result), state, m, ty,
                       RunRecord("stopped", fr, nl, ftp,
                                 wrote \cup {"detail", "rollup"}))
          [] OTHER ->
                Finish(to_csv(result), session_attendance(result),
                       save_state(all_processed(fr, all_files, ftp)), m, ty,
                       RunRecord("done", fr, nl, ftp,
                                 wrote \cup {"detail", "rollup", "state"}))

\* apply_name_mappings, then the categories of the names not in session_types.csv;
\* the names are listed with sorted()
CategoryStep(fr, nl, ftp, all_files, result, m, wrote, canonical_names) ==
    LET mapped == apply_name_mappings(result, m)
        skipped_names == {x \in DOMAIN m : m[x] = SKIP_SENTINEL}
        uncategorized == (session_names_of(mapped) \ canonical_names) \ skipped_names
    IN IF sorted_raises(uncategorized)
       THEN Stop(TypeError, fr, nl, ftp, m, types, wrote)
       ELSE IF uncategorized # {} /\ ~nl
       THEN \E reply \in CollaboratorReplies(CategoryReplies) :
              IF reply.error # ""
              THEN Stop("suggest_categories raised", fr, nl, ftp, m, types, wrote)
              ELSE \E responses \in [DOMAIN reply.dict -> Responses] :
                     LET approved_cats == approved_of(reply.dict, responses)
                     IN IF approved_cats # EmptyDict
                        THEN OutputStep(fr, nl, ftp, all_files, mapped, m,
                                        approved_cats @@ types, wrote \cup {"types"})
                        ELSE OutputStep(fr, nl, ftp, all_files, mapped, m, types, wrote)
       ELSE OutputStep(fr, nl, ftp, all_files, mapped, m, types, wrote)

\* the mapping suggestions for the unmapped names
MappingStep(fr, nl, ftp, all_files, result) ==
    LET canonical_names == load_canonical_names(types)
        unmapped == find_unmapped_names(session_names_of(result), mappings,
                                        canonical_names)
    IN IF sorted_raises(unmapped)
       THEN Stop(TypeError, fr, nl, ftp, mappings, types, {})
       ELSE IF unmapped # {} /\ ~nl
       THEN \E reply \in CollaboratorReplies(MappingReplies) :
              IF reply.error # ""
              THEN Stop("suggest_mappings raised", fr, nl, ftp, mappings, types, {})
              ELSE \E responses \in [DOMAIN reply.dict -> Responses] :
                     LET approved == approved_of(reply.dict, responses)
                         skipped == skipped_of(reply.dict, responses)
                     IN IF approved # EmptyDict \/ skipped # {}
                        THEN CategoryStep(fr, nl, ftp, all_files, result,
                                          update_mappings(mappings, approved, skipped),
                                          {"mappings"}, canonical_names)
                        ELSE CategoryStep(fr, nl, ftp, all_files, result, mappings,
                                          {}, canonical_names)
       ELSE CategoryStep(fr, nl, ftp, all_files, result, mappings, {}, canonical_names)

\* merge with the existing spond.csv in an incremental run.  read_csv of a file
\* with no data row leaves session_date an object column in some pandas
\* versions, and .dt then raises
MergeStep(fr, nl, ftp, all_files, new_data) ==
    IF ~fr /\ detail.exists
    THEN \/ /\ detail.rows = <<>>
            /\ Stop("read of spond.csv raised", fr, nl, ftp, mappings, types, {})
         \/ \E result \in merge_with_existing(read_csv(detail), new_data, today) :
              MappingStep(fr, nl, ftp, all_files, result)
    ELSE MappingStep(fr, nl, ftp, all_files, new_data)

main(fr, nl) ==
    LET found == discover_files(inputDir)
    IN IF found.error # ""
       THEN Stop("unexpected xlsx files", fr, nl, <<>>, mappings, types, {})
       ELSE \E all_files \in found.files :
         IF all_files = <<>>
         THEN Stop("no files found", fr, nl, <<>>, mappings, types, {})
         ELSE LET ftp == IF fr THEN all_files
                         ELSE find_new_files(all_files, load_state(state))
              IN IF ftp = <<>>
                 THEN Stop("No new files to process.", fr, nl, <<>>, mappings, types, {})
                 ELSE LET p == process_files(ftp, today)
                      IN IF p.error # ""
                         THEN Stop(p.error, fr, nl, ftp, mappings, types, {})
                         ELSE \E new_data \in p.tables :
                                MergeStep(fr, nl, ftp, all_files, new_data)

Run == \E fr \in BOOLEAN, nl \in BOOLEAN : main(fr, nl)

----------------------------------------------------------------------------
(* The environment: exports arrive in the input directory, days pass *)

AddFile ==
    \E f \in FileNames \ inputDir :
        /\ inputDir' = inputDir \cup {f}
        /\ lastRun' = NoRun
        /\ UNCHANGED <<today, detail, rollup, state, mappings, types, failures, renamed>>
        /\ UNCHANGED tableVars
        /\ UNCHANGED argVars

AdvanceDay ==
    /\ today < MaxDay
    /\ today' = today + 1
    /\ lastRun' = NoRun
    /\ UNCHANGED <<inputDir, detail, rollup, state, mappings, types, failures, renamed>>
    /\ UNCHANGED tableVars
    /\ UNCHANGED argVars

InitRun ==
    /\ inputDir = {}
    /\ today = 2
    /\ detail = NoFile
    /\ rollup = NoFile
    /\ state = NoFile
    /\ mappings = EmptyDict
    /\ types = EmptyDict
    /\ lastRun = NoRun
    /\ failures = 0
    /\ renamed = FALSE

InitTable ==
    /\ df = <<>>
    /\ existing = <<>>
    /\ new = <<>>
    /\ out = <<>>
    /\ op = "none"

InitArgs ==
    /\ wide = <<>>
    /\ listing = <<>>
    /\ saved = {}
    /\ frame = <<>>

Init == InitRun /\ InitTable /\ InitArgs

Next == Run \/ AddFile \/ AdvanceDay

Spec == Init /\ [][Next]_vars

\* SpecDir: the runs over an input directory whose exports come and go, on
\* one day
RemoveFile ==
    \E f \in inputDir :
        /\ inputDir' = inputDir \ {f}
        /\ lastRun' = NoRun
        /\ UNCHANGED <<today, detail, rollup, state, mappings, types, failures, renamed>>
        /\ UNCHANGED tableVars
        /\ UNCHANGED argVars

NextDir == Run \/ AddFile \/ RemoveFile

SpecDir == Init /\ [][NextDir]_vars

\* SpecRerun: the runs over a directory that holds the December export, with
\* the name "nan" skipped in session_name_mappings.csv, and an output directory
\* that can lose its state file
InitRerun ==
    /\ inputDir = {"spond_attendance_dec_24.xlsx"}
    /\ today = 2
    /\ detail = NoFile
    /\ rollup = NoFile
    /\ state = NoFile
    /\ mappings = [x \in {"nan"} |-> SKIP_SENTINEL]
    /\ types = EmptyDict
    /\ lastRun = NoRun
    /\ failures = 0
    /\ renamed = FALSE
    /\ InitTable
    /\ InitArgs

LoseState ==
    /\ state.exists
    /\ state' = NoFile
    /\ lastRun' = NoRun
    /\ UNCHANGED <<inputDir, today, detail, rollup, mappings, types, failures, renamed>>
    /\ UNCHANGED tableVars
    /\ UNCHANGED argVars

NextRerun == Run \/ LoseState \/ AdvanceDay

SpecRerun == InitRerun /\ [][NextRerun]_vars

----------------------------------------------------------------------------
(* SpecTable: _deduplicate and merge_with_existing on drawn tables.  A     *)
(* ranked table is built as process_files builds it, file after file, so   *)
(* its ranks do not decrease.                                              *)

TableNames == {"Al", NaN}
TableSessions == {"Run", "Swim"}
TableDates == {1, 2}
TableRanks == {0, 1}

TableRows ==
    {[name |-> n, session_name |-> s, session_date |-> d,
      session_day_of_week |-> strftime_A(d), attended |-> a] :
        n \in TableNames, s \in TableSessions, d \in TableDates, a \in {0, 1}}

AddRankedRow ==
    /\ op = "none" /\ existing = <<>> /\ new = <<>>
    /\ Len(df) < MaxRows
    /\ \E r \in TableRows, k \in TableRanks :
         /\ IF df = <<>> THEN TRUE ELSE df[Len(df)]._source_rank <= k
         /\ df' = Append(df, with_source_rank(r, k))
    /\ UNCHANGED <<existing, new, out, op>>
    /\ UNCHANGED runVars
    /\ UNCHANGED argVars

AddExistingRow ==
    /\ op = "none" /\ df = <<>>
    /\ Len(existing) + Len(new) < MaxRows
    /\ \E r \in TableRows : existing' = Append(existing, r)
    /\ UNCHANGED <<df, new, out, op>>
    /\ UNCHANGED runVars
    /\ UNCHANGED argVars

AddNewRow ==
    /\ op = "none" /\ df = <<>>
    /\ Len(existing) + Len(new) < MaxRows
    /\ \E r \in TableRows : new' = Append(new, r)
    /\ UNCHANGED <<df, existing, out, op>>
    /\ UNCHANGED runVars
    /\ UNCHANGED argVars

ApplyDeduplicate ==
    /\ op = "none" /\ df # <<>>
    /\ \E t \in _deduplicate(df, today) : out' = t
    /\ op' = "_deduplicate"
    /\ UNCHANGED <<df, existing, new>>
    /\ UNCHANGED runVars
    /\ UNCHANGED argVars

ApplyMerge ==
    /\ op = "none" /\ (existing # <<>> \/ new # <<>>)
    /\ \E t \in merge_with_existing(existing, new, today) : out' = t
    /\ op' = "merge_with_existing"
    /\ UNCHANGED <<df, existing, new>>
    /\ UNCHANGED runVars
    /\ UNCHANGED argVars

NextTable ==
    AddRankedRow \/ AddExistingRow \/ AddNewRow \/ ApplyDeduplicate \/ ApplyMerge

SpecTable == Init /\ [][NextTable]_vars

----------------------------------------------------------------------------
(* SpecTransform: transform_file on drawn wide tables.  A table has the    *)
(* Name column first, then columns of distinct headers; a row after row 0  *)
(* has a name cell and one attendance value, written in all its cells.     *)

WideColumns ==
    {[header |-> DatetimeHeader(1, 18), row0 |-> StrCell(<<"Swim", "*">>)],
     [header |-> IsoTextHeader(1, 9, 1), row0 |-> StrCell(<<"Swim", "*", " ", "*">>)],
     [header |-> DatetimeHeader(2, 18),
      row0 |-> StrCell(<<" ", "Run", " ", "*", "*", " ">>)],
     [header |-> DatetimeHeader(2, 9), row0 |-> NanCell],
     [header |-> LabelHeader("Group"), row0 |-> NanCell]}

WideNames ==
    {StrCell(<<"Al">>), NanCell, StrCell(<<"*Attendance", " is recorded by hosts">>)}

WideCells ==
    {NanCell, IntCell(1), IntCell(2), StrCell(<<"1">>), StrCell(<<"x">>), FloatCell(15)}

InitTransform ==
    /\ InitRun /\ InitTable
    /\ wide = <<[header |-> NameHeader, values |-> <<NanCell>>]>>
    /\ listing = <<>> /\ saved = {} /\ frame = <<>>

AddWideColumn ==
    /\ op = "none"
    /\ Len(wide) - 1 < MaxCols
    /\ Len(wide[1].values) = 1
    /\ \E c \in WideColumns :
         /\ \A i \in DOMAIN wide : wide[i].header # c.header
         /\ wide' = Append(wide, [header |-> c.header, values |-> <<c.row0>>])
    /\ UNCHANGED <<listing, saved, frame>>
    /\ UNCHANGED runVars
    /\ UNCHANGED tableVars

AddWideRow ==
    /\ op = "none"
    /\ Len(wide[1].values) - 1 < MaxMembers
    /\ \E n \in WideNames, v \in WideCells :
         wide' = [i \in DOMAIN wide |->
                    [wide[i] EXCEPT !.values = Append(@, IF i = 1 THEN n ELSE v)]]
    /\ UNCHANGED <<listing, saved, frame>>
    /\ UNCHANGED runVars
    /\ UNCHANGED tableVars

ApplyTransform ==
    /\ op = "none"
    /\ out' = transform_file(wide)
    /\ op' = "transform_file"
    /\ UNCHANGED <<df, existing, new>>
    /\ UNCHANGED runVars
    /\ UNCHANGED argVars

NextTransform == AddWideColumn \/ AddWideRow \/ ApplyTransform

SpecTransform == InitTransform /\ [][NextTransform]_vars

----------------------------------------------------------------------------
(* SpecFiles: parse_file_date and discover_files on drawn directory        *)
(* listings.                                                               *)

AddEntry ==
    /\ op = "none"
    /\ Len(listing) < MaxFiles
    /\ \E f \in DrawnNames \ RowsOf(listing) : listing' = Append(listing, f)
    /\ UNCHANGED <<wide, saved, frame>>
    /\ UNCHANGED runVars
    /\ UNCHANGED tableVars

ApplyDiscover ==
    /\ op = "none"
    /\ out' = discover_entries(listing)
    /\ op' = "discover_files"
    /\ UNCHANGED <<df, existing, new>>
    /\ UNCHANGED runVars
    /\ UNCHANGED argVars

ApplyParse ==
    /\ op = "none"
    /\ \E i \in DOMAIN listing :
         out' = [file |-> listing[i], date |-> parse_file_date(listing[i])]
    /\ op' = "parse_file_date"
    /\ UNCHANGED <<df, existing, new>>
    /\ UNCHANGED runVars
    /\ UNCHANGED argVars

NextFiles == AddEntry \/ ApplyDiscover \/ ApplyParse

SpecFiles == Init /\ [][NextFiles]_vars

----------------------------------------------------------------------------
(* SpecState: save_state and load_state on one output directory *)

SaveState ==
    /\ \E processed_files \in SUBSET FileNames :
         /\ state' = save_state(processed_files)
         /\ saved' = processed_files
    /\ op' = "save_state"
    /\ UNCHANGED <<inputDir, today, detail, rollup, mappings, types, lastRun, failures,
                   renamed>>
    /\ UNCHANGED <<df, existing, new, out>>
    /\ UNCHANGED <<wide, listing, frame>>

LoadState ==
    /\ out' = load_state(state)
    /\ op' = "load_state"
    /\ UNCHANGED <<df, existing, new>>
    /\ UNCHANGED runVars
    /\ UNCHANGED argVars

NextState == SaveState \/ LoadState

SpecState == Init /\ [][NextState]_vars

----------------------------------------------------------------------------
(* SpecOutputs: generate_outputs on drawn detail tables.  A session name   *)
(* is missing in a record read back from a spond.csv that holds "" or      *)
(* "nan" for it.                                                           *)

FrameRows ==
    {[name |-> n, session_name |-> s, session_date |-> d,
      session_day_of_week |-> strftime_A(d), attended |-> a] :
        n \in {"Al", "Bo"}, s \in {"Run", "Swim", NaN}, d \in TableDates,
        a \in {0, 1}}

AddFrameRow ==
    /\ op = "none"
    /\ Len(frame) < MaxRows
    /\ \E r \in FrameRows : frame' = Append(frame, r)
    /\ UNCHANGED <<wide, listing, saved>>
    /\ UNCHANGED runVars
    /\ UNCHANGED tableVars

ApplyOutputs ==
    /\ op = "none"
    /\ detail' = to_csv(frame)
    /\ rollup' = session_attendance(frame)
    /\ op' = "generate_outputs"
    /\ UNCHANGED <<inputDir, today, state, mappings, types, lastRun, failures, renamed>>
    /\ UNCHANGED <<df, existing, new, out>>
    /\ UNCHANGED argVars

NextOutputs == AddFrameRow \/ ApplyOutputs

SpecOutputs == Init /\ [][NextOutputs]_vars

----------------------------------------------------------------------------
(* SpecMapping: apply_name_mappings on drawn tables and mapping tables,    *)
(* and once more on its own result, as the next incremental run applies it *)
(* to the table it reads back.                                             *)

MappedRows ==
    {[name |-> "Al", session_name |-> s, session_date |-> d,
      session_day_of_week |-> strftime_A(d), attended |-> 1] :
        s \in {"Run", "Swim", "Swim!", NaN}, d \in TableDates}

\* the dicts load_name_mappings can return for a file with these keys
MappingDicts ==
    UNION {[K -> {"Run", "Swim", SKIP_SENTINEL}] : K \in SUBSET {"Swim", "Swim!"}}

AddMappedRow ==
    /\ op = "none"
    /\ Len(frame) < MaxRows
    /\ \E r \in MappedRows : frame' = Append(frame, r)
    /\ UNCHANGED <<wide, listing, saved>>
    /\ UNCHANGED runVars
    /\ UNCHANGED tableVars

\* result = apply_name_mappings(result, mappings): df.copy() is written, the
\* argument is not
ApplyMapping ==
    /\ op = "none"
    /\ \E m \in MappingDicts :
         /\ mappings' = m
         /\ out' = apply_name_mappings(frame, m)
    /\ op' = "apply_name_mappings"
    /\ UNCHANGED <<inputDir, today, detail, rollup, state, types, lastRun, failures,
                   renamed>>
    /\ UNCHANGED <<df, existing, new>>
    /\ UNCHANGED argVars

\* the mapped table is the existing table of the next run, mapped again
ReapplyMapping ==
    /\ op = "apply_name_mappings"
    /\ existing' = out
    /\ out' = apply_name_mappings(out, mappings)
    /\ op' = "apply_name_mappings again"
    /\ UNCHANGED <<df, new>>
    /\ UNCHANGED runVars
    /\ UNCHANGED argVars

NextMapping == AddMappedRow \/ ApplyMapping \/ ReapplyMapping

SpecMapping == Init /\ [][NextMapping]_vars

----------------------------------------------------------------------------
(* SpecSameDay: process_files on one drawn export whose session columns    *)
(* are all on day 1: two times of day, a duplicated header that pandas     *)
(* has given the suffix ".1", and two display names.  Every attendance     *)
(* cell is drawn on its own.                                               *)

SameDayColumns ==
    {[header |-> DatetimeHeader(1, 9), row0 |-> StrCell(<<"Swim">>)],
     [header |-> DatetimeHeader(1, 18), row0 |-> StrCell(<<"Swim">>)],
     [header |-> IsoTextHeader(1, 18, 1), row0 |-> StrCell(<<"Swim">>)],
     [header |-> DatetimeHeader(1, 18), row0 |-> StrCell(<<"Run">>)]}

SameDayMembers == <<"Al", "Bo", "Cy", "Di">>

AddSameDayColumn ==
    /\ op = "none"
    /\ Len(wide) - 1 < MaxCols
    /\ Len(wide[1].values) = 1
    /\ \E c \in SameDayColumns :
         /\ \A i \in DOMAIN wide : wide[i].header # c.header
         /\ wide' = Append(wide, [header |-> c.header, values |-> <<c.row0>>])
    /\ UNCHANGED <<listing, saved, frame>>
    /\ UNCHANGED runVars
    /\ UNCHANGED tableVars

AddSameDayMember ==
    /\ op = "none"
    /\ Len(wide) > 1
    /\ Len(wide[1].values) - 1 < MaxMembers
    /\ \E cells \in [2..Len(wide) -> {IntCell(1), NanCell}] :
         wide' = [i \in DOMAIN wide |->
                    [wide[i] EXCEPT !.values =
                        Append(@, IF i = 1
                                  THEN StrCell(<<SameDayMembers[Len(wide[1].values)]>>)
                                  ELSE cells[i])]]
    /\ UNCHANGED <<listing, saved, frame>>
    /\ UNCHANGED runVars
    /\ UNCHANGED tableVars

\* process_files([path]): the long table of the one file, ranked 0, deduplicated
ApplyProcessFile ==
    /\ op = "none"
    /\ Len(wide) > 1
    /\ df' = TagAll(transform_file(wide).rows, 0)
    /\ \E t \in _deduplicate(TagAll(transform_file(wide).rows, 0), today) : out' = t
    /\ op' = "process_files"
    /\ UNCHANGED <<existing, new>>
    /\ UNCHANGED runVars
    /\ UNCHANGED argVars

NextSameDay == AddSameDayColumn \/ AddSameDayMember \/ ApplyProcessFile

SpecSameDay == InitTransform /\ [][NextSameDay]_vars

----------------------------------------------------------------------------
(* Claims about the table functions, checked under SpecTable *)

\* the attended values table t holds for key k
AttendedOf(t, k) == {t[i].attended : i \in {j \in DOMAIN t : Key(t[j]) = k}}

CountKey(t, k) == Cardinality({i \in DOMAIN t : Key(t[i]) = k})

\* C1: _deduplicate returns, for every key dated before today, exactly one
\* record, and its attended value is that of an input record of the lowest
\* source rank the key has.
C1_LowestRankWins ==
    op = "_deduplicate" =>
        \A k \in KeysOf(df) : k[3] < today =>
            /\ CountKey(out, k) = 1
            /\ \A i \in DOMAIN out : Key(out[i]) = k =>
                 \E j \in DOMAIN df :
                    /\ Key(df[j]) = k
                    /\ df[j].attended = out[i].attended
                    /\ \A q \in DOMAIN df :
                         Key(df[q]) = k => df[j]._source_rank <= df[q]._source_rank

\* two records of one key with different ranks and values; the lower rank is kept
C1_Witness ==
    /\ op = "_deduplicate"
    /\ \E i \in DOMAIN df, j \in DOMAIN df :
         /\ Key(df[i]) = Key(df[j])
         /\ df[i].session_date < today
         /\ df[i]._source_rank < df[j]._source_rank
         /\ df[i].attended # df[j].attended
         /\ AttendedOf(out, Key(df[i])) = {df[i].attended}

\* C3 as stated: every key of existing dated before today is once in the result
\* with existing's value, and every key only in new is in the result with new's
\* value.
C3_Original ==
    op = "merge_with_existing" =>
        /\ \A k \in KeysOf(existing) : k[3] < today =>
             /\ CountKey(out, k) = 1
             /\ AttendedOf(out, k) \subseteq AttendedOf(existing, k)
        /\ \A k \in KeysOf(new) \ KeysOf(existing) :
             /\ CountKey(out, k) = 1
             /\ AttendedOf(out, k) \subseteq AttendedOf(new, k)

\* C3 amended: the keys only in new are added when they are dated before today.
C3_ExistingWins ==
    op = "merge_with_existing" =>
        /\ \A k \in KeysOf(existing) : k[3] < today =>
             /\ CountKey(out, k) = 1
             /\ AttendedOf(out, k) \subseteq AttendedOf(existing, k)
        /\ \A k \in KeysOf(new) \ KeysOf(existing) : k[3] < today =>
             /\ CountKey(out, k) = 1
             /\ AttendedOf(out, k) \subseteq AttendedOf(new, k)

\* existing and new disagree on a key, and new brings a key of its own
C3_Witness ==
    /\ op = "merge_with_existing"
    /\ \E i \in DOMAIN existing, j \in DOMAIN new :
         /\ Key(existing[i]) = Key(new[j])
         /\ existing[i].session_date < today
         /\ existing[i].attended # new[j].attended
         /\ AttendedOf(out, Key(new[j])) = {existing[i].attended}
    /\ \E j \in DOMAIN new :
         /\ Key(new[j]) \notin KeysOf(existing)
         /\ new[j].session_date < today
         /\ CountKey(out, Key(new[j])) = 1

\* C5: no record returned by _deduplicate, called by process_files or by
\* merge_with_existing, is dated today or later.
C5_NoFutureRows ==
    op # "none" => \A i \in DOMAIN out : out[i].session_date < today

\* both tables hold a record dated today, and a record dated before is returned
C5_Witness ==
    /\ op = "merge_with_existing"
    /\ \E i \in DOMAIN existing : existing[i].session_date >= today
    /\ \E j \in DOMAIN new : new[j].session_date >= today
    /\ out # <<>>

\* (session_date, session_name, name) in ascending order, missing values last
C6_TextLeq(x, y) == y = NaN \/ (x # NaN /\ StrPos(x) <= StrPos(y))

C6_TupleLeq(a, b) ==
    \/ a.session_date < b.session_date
    \/ /\ a.session_date = b.session_date
       /\ a.session_name # b.session_name
       /\ C6_TextLeq(a.session_name, b.session_name)
    \/ /\ a.session_date = b.session_date
       /\ a.session_name = b.session_name
       /\ C6_TextLeq(a.name, b.name)

\* C6: the table _deduplicate returns is sorted ascending by
\* (session_date, session_name, name).
C6_Sorted ==
    op # "none" => \A i \in 1..(Len(out) - 1) : C6_TupleLeq(out[i], out[i + 1])

\* the input lists two kept records in descending order
C6_Witness ==
    /\ op = "_deduplicate"
    /\ Len(out) >= 2
    /\ \E i \in 1..(Len(df) - 1) :
         /\ ~C6_TupleLeq(df[i], df[i + 1])
         /\ df[i].session_date < today
         /\ df[i + 1].session_date < today

----------------------------------------------------------------------------
(* Claims about the runs, checked under Spec *)

Persisted == <<detail, rollup, state, mappings, types>>

\* the files a run has processed that hold key k, and the oldest of a set of files
FilesWith(F, k) == {f \in F : k \in KeysOf(Frames[f].rows)}

OldestOf(F) ==
    CHOOSE f \in F : \A g \in F : DateLeq(parse_file_date(f), parse_file_date(g))

\* the value a text of spond.csv was written from
WrittenFrom(x) == IF x = "" THEN NaN ELSE x

MemKey(r) == <<WrittenFrom(r.name), WrittenFrom(r.session_name), r.session_date>>

\* C2 as stated: after a successful run, a key that occurs in more than one
\* processed file has in the detail table the record of the chronologically
\* oldest of those files, whichever runs processed them.
C2_Original ==
    lastRun.outcome = "done" =>
        \A i \in DOMAIN detail.rows :
            LET k == Key(detail.rows[i])
                F == FilesWith(load_state(state), k)
            IN Cardinality(F) > 1 =>
                 detail.rows[i].attended \in AttendedOf(Frames[OldestOf(F)].rows, k)

\* C2 amended: while no name mapping is active, a run that writes the detail
\* table keeps the record of every key the detail table already had (incremental
\* mode), and gives every other key the record of the chronologically oldest
\* file of its own batch that holds the key.
C2_OldestOfBatchAfterExisting ==
    [][("detail" \in lastRun'.wrote /\ ~renamed') =>
        LET before == IF lastRun'.full_refresh \/ ~detail.exists THEN <<>>
                      ELSE read_csv(detail)
            batch == RowsOf(lastRun'.processed)
        IN \A i \in DOMAIN detail'.rows :
             LET k == MemKey(detail'.rows[i])
             IN IF k \in KeysOf(before)
                THEN detail'.rows[i].attended \in AttendedOf(before, k)
                ELSE /\ FilesWith(batch, k) # {}
                     /\ detail'.rows[i].attended \in
                            AttendedOf(Frames[OldestOf(FilesWith(batch, k))].rows, k)
    ]_vars

\* a batch of two files that disagree on a key, and an older file processed by a
\* later run than a newer file that holds the same key
C2_Witness ==
    /\ lastRun.outcome = "done"
    /\ ~renamed
    /\ \E i \in DOMAIN detail.rows :
         LET k == Key(detail.rows[i])
             F == FilesWith(load_state(state), k)
         IN /\ Cardinality(F) > 1
            /\ lastRun.processed = <<OldestOf(F)>>
            /\ detail.rows[i].attended \notin AttendedOf(Frames[OldestOf(F)].rows, k)

\* pd.read_csv gives back the text that was written
ReadsBack(x) == read_csv_value(x) = x

ActiveKeys(m) == {x \in DOMAIN m : m[x] # SKIP_SENTINEL}

\* C4 as stated, for the records whose texts read back from spond.csv as written
\* and whose session name the run's name mapping does not rewrite: an
\* incremental run keeps every such key of the detail table, with its attended
\* value.
C4_RecordedValueKept ==
    [][(lastRun'.outcome # "none" /\ ~lastRun'.full_refresh) =>
        \A i \in DOMAIN detail.rows :
            (/\ ReadsBack(detail.rows[i].name)
             /\ ReadsBack(detail.rows[i].session_name)
             /\ detail.rows[i].session_name \notin ActiveKeys(mappings')) =>
                \E j \in DOMAIN detail'.rows :
                    /\ Key(detail'.rows[j]) = Key(detail.rows[i])
                    /\ detail'.rows[j].attended = detail.rows[i].attended
    ]_vars

\* the conforming files of a directory that the state file does not list
NotYetProcessed(dir, st) ==
    {f \in dir : parse_file_date(f).error = "" /\ (~st.exists \/ f \notin RowsOf(st.rows))}

PastDiscovery(r) ==
    r.outcome \notin {"none", "unexpected xlsx files", "no files found"}

\* C7: an incremental run processes exactly the discovered files the state file
\* does not list, oldest first; with none it reports "No new files to process."
\* and changes no file of the output directory; after a successful run nothing
\* is left to process, and one new valid file added then is the next batch.
C7_Incremental ==
    [][/\ (PastDiscovery(lastRun') /\ ~lastRun'.full_refresh) =>
            /\ RowsOf(lastRun'.processed) = NotYetProcessed(inputDir, state)
            /\ Len(lastRun'.processed) = Cardinality(NotYetProcessed(inputDir, state))
            /\ \A i \in 1..(Len(lastRun'.processed) - 1) :
                 DateLeq(parse_file_date(lastRun'.processed[i]),
                         parse_file_date(lastRun'.processed[i + 1]))
            /\ (lastRun'.processed = <<>>) <=>
                 (lastRun'.outcome = "No new files to process.")
       /\ (lastRun'.outcome = "No new files to process.") => UNCHANGED Persisted
       /\ (lastRun'.outcome = "done") => NotYetProcessed(inputDir', state') = {}
       /\ (/\ inputDir' # inputDir
           /\ NotYetProcessed(inputDir, state) = {}
           /\ discover_files(inputDir').error = "") =>
            NotYetProcessed(inputDir', state') = inputDir' \ inputDir
    ]_vars

\* an incremental run has processed the one file added after an earlier run
C7_Witness ==
    /\ lastRun.outcome = "done"
    /\ ~lastRun.full_refresh
    /\ Len(lastRun.processed) = 1
    /\ Cardinality(load_state(state)) = 2

\* a run that finds nothing new, after a run has written the outputs
C7_WitnessNoNew ==
    /\ lastRun.outcome = "No new files to process."
    /\ detail.exists

\* C8 as stated: a run, failed or not, has written the detail table, the rollup
\* and the state file together, or none of them.
C8_AllOrNothing ==
    lastRun.wrote \cap {"detail", "rollup", "state"} \in
        {{}, {"detail", "rollup", "state"}}

\* C9 as stated: a run in which the enrichment collaborator fails still writes
\* the detail table, the rollup and the state file.
C9_RunContinues ==
    lastRun.outcome \in {"suggest_mappings raised", "suggest_categories raised"} =>
        {"detail", "rollup", "state"} \subseteq lastRun.wrote

\* C10: a run whose batch holds a file without session columns ends with the
\* no-session-columns error and changes no file of the output directory.
C10_NoSessionColumnsAborts ==
    [][(\E i \in DOMAIN lastRun'.processed :
            session_columns(read_attendance_file(lastRun'.processed[i])) = <<>>) =>
        /\ lastRun'.outcome = NoSessionColumns
        /\ lastRun'.wrote = {}
        /\ UNCHANGED Persisted
    ]_vars

\* the batch holds a valid file too, and an earlier run's outputs are in place
C10_Witness ==
    /\ lastRun.outcome = NoSessionColumns
    /\ Len(lastRun.processed) = 2
    /\ detail.exists

----------------------------------------------------------------------------
(* Claims about transform_file, checked under SpecTransform *)

\* the rows after row 0 with an identity that is no disclaimer
MemberIndices(t) ==
    {r \in 2..Len(t[1].values) :
        /\ t[1].values[r].k # "nan"
        /\ str(t[1].values[r])[1] # "*Attendance"}

\* the columns whose header is a date
SessionIndices(t) == {c \in DOMAIN t : t[c].header.label = ""}

\* C11: of a wide table with M member rows and S >= 1 session columns,
\* transform_file returns M*S records, one for each pair of a member row and a
\* session column, whatever the attendance cells hold.
C11_OneRecordPerPair ==
    (op = "transform_file" /\ SessionIndices(wide) # {}) =>
        /\ out.error = ""
        /\ Len(out.rows) =
             Cardinality(MemberIndices(wide)) * Cardinality(SessionIndices(wide))
        /\ \A r \in MemberIndices(wide), c \in SessionIndices(wide) :
             \E i \in DOMAIN out.rows :
                /\ out.rows[i].name = Join(str(wide[1].values[r]))
                /\ out.rows[i].session_date = wide[c].header.date
                /\ out.rows[i].session_name = session_name_of(wide[c].values[1])

\* two members, two session columns, missing and marked cells: four records
C11_Witness ==
    /\ op = "transform_file"
    /\ Cardinality(MemberIndices(wide)) = 2
    /\ Cardinality(SessionIndices(wide)) = 2
    /\ Len(out.rows) = 4
    /\ \E r, q \in MemberIndices(wide) :
         wide[2].values[r].k = "nan" /\ wide[2].values[q].k = "int"

\* the cell's coerced numeric value is exactly 1
IsOne(c) ==
    \/ c.k = "int" /\ c.n = 1
    \/ c.k = "float" /\ c.n = 10
    \/ c.k = "str" /\ Join(strip(c.t)) = "1"

\* C12 as stated: every record has attended 1 when the coerced numeric value of
\* its cell is exactly 1 and attended 0 otherwise.
C12_AttendedIsZeroOrOne ==
    (op = "transform_file" /\ out.error = "") =>
        /\ \A i \in DOMAIN out.rows : out.rows[i].attended \in {0, 1}
        /\ \A r \in MemberIndices(wide), c \in SessionIndices(wide) :
             \A i \in DOMAIN out.rows :
                (/\ out.rows[i].name = Join(str(wide[1].values[r]))
                 /\ out.rows[i].session_date = wide[c].header.date
                 /\ out.rows[i].session_name = session_name_of(wide[c].values[1])) =>
                    \E q \in MemberIndices(wide) :
                       /\ wide[1].values[q] = wide[1].values[r]
                       /\ out.rows[i].attended =
                            (IF IsOne(wide[c].values[q]) THEN 1 ELSE 0)

\* C13: the names transform_file returns are exactly the identities of the rows
\* after row 0 that have one and are no disclaimer row.
C13_OnlyMembers ==
    (op = "transform_file" /\ SessionIndices(wide) # {}) =>
        {out.rows[i].name : i \in DOMAIN out.rows} =
            {Join(str(wide[1].values[r])) : r \in MemberIndices(wide)}

\* a member next to a disclaimer row, and a member next to a row without a name
C13_Witness ==
    /\ op = "transform_file"
    /\ out.rows # <<>>
    /\ Cardinality(MemberIndices(wide)) = 1
    /\ \E r \in 2..Len(wide[1].values) :
         wide[1].values[r].k = "str" /\ r \notin MemberIndices(wide)

\* text x ends with ch, x being cut out of the chunks
EndsWith(x, ch, chunks) ==
    \E i \in 1..(Len(chunks) + 1), j \in 0..Len(chunks) :
        x = Join(SubSeq(chunks, i, j)) \o ch

\* C14 as stated: a session column whose row-0 text ends with "*" gets a
\* session name that does not end with "*" and has no blank at either end.
C14_NoTrailingStar ==
    (op = "transform_file" /\ out.error = "") =>
        \A c \in SessionIndices(wide) :
            LET t == str(wide[c].values[1])
            IN (wide[c].values[1].k = "str" /\ t[Len(t)] = "*") =>
                 \A i \in DOMAIN out.rows :
                    out.rows[i].session_date = wide[c].header.date =>
                       /\ ~EndsWith(out.rows[i].session_name, "*", t)
                       /\ ~EndsWith(out.rows[i].session_name, " ", t)

----------------------------------------------------------------------------
(* Claims about parse_file_date and discover_files, checked under SpecFiles *)

IsTemp(f) == NameParts(f).before = "~$"

\* the entries that are no temporary file and that parse_file_date rejects
Rejected(entries) ==
    {f \in RowsOf(entries) : ~IsTemp(f) /\ parse_file_date(f).error # ""}

ExactForm(f) ==
    LET p == NameParts(f)
    IN /\ p.before = ""
       /\ p.stem = "spond_attendance_"
       /\ p.mon \in {"jan", "feb", "apr", "dec", "sep", "sept", "FEB"}
       /\ Len(p.yy) = 2
       /\ p.ext = ".xlsx"

\* C16 as stated: parse_file_date fails for every name that is not of the exact
\* form, with an error that names the file.
C16_RejectsOtherNames ==
    (op = "parse_file_date" /\ ~ExactForm(out.file)) =>
        /\ out.date.error # ""
        /\ \E msg \in {"Filename does not match expected pattern: ",
                       "Unrecognized month abbreviation: ", "BadFormat: "} :
             out.date.error = msg \o out.file

SameDate(f, g) ==
    /\ DateLeq(parse_file_date(f), parse_file_date(g))
    /\ DateLeq(parse_file_date(g), parse_file_date(f))

\* position of f in a sequence without repetitions
IndexOf(q, f) == CHOOSE i \in DOMAIN q : q[i] = f

\* C17: discover_files returns the accepted entries oldest first, and entries
\* of the same date in the order of the enumeration.
C17_StableOldestFirst ==
    (op = "discover_files" /\ out.error = "") =>
        /\ RowsOf(out.files) = {f \in RowsOf(listing) : ~IsTemp(f)}
        /\ Len(out.files) = Cardinality(RowsOf(out.files))
        /\ \A i, j \in DOMAIN out.files : i < j =>
             /\ DateLeq(parse_file_date(out.files[i]), parse_file_date(out.files[j]))
             /\ SameDate(out.files[i], out.files[j]) =>
                  IndexOf(listing, out.files[i]) < IndexOf(listing, out.files[j])

\* two files of one date returned in the order listed, against the order of
\* their names, after the listing was reordered
C17_Witness ==
    /\ op = "discover_files"
    /\ Len(out.files) = 3
    /\ out.files # listing
    /\ \E i \in 1..2 :
         /\ SameDate(out.files[i], out.files[i + 1])
         /\ StrPos(out.files[i]) > StrPos(out.files[i + 1])

\* year and month each name of the convention stands for
ExpectedDate ==
    [f \in {g \in DrawnNames : ExactForm(g)} |->
        CASE f = "spond_attendance_dec_24.xlsx" -> <<2024, 12>>
          [] f = "spond_attendance_jan_25.xlsx" -> <<2025, 1>>
          [] f \in {"spond_attendance_feb_25.xlsx", "spond_attendance_FEB_25.xlsx"} ->
                <<2025, 2>>
          [] f = "spond_attendance_apr_25.xlsx" -> <<2025, 4>>
          [] OTHER -> <<2025, 9>>]

\* C18: for a name of the convention parse_file_date returns the first day of
\* the month of year 2000 + yy, whatever the case of the month token; sep and
\* sept both give month 9.
C18_FirstOfMonth ==
    (op = "parse_file_date" /\ ExactForm(out.file)) =>
        out.date = [error |-> "", year |-> ExpectedDate[out.file][1],
                    month |-> ExpectedDate[out.file][2], day |-> 1]

\* the month token in capitals
C18_Witness ==
    /\ op = "parse_file_date"
    /\ out.file = "spond_attendance_FEB_25.xlsx"
    /\ out.date.month = 2

----------------------------------------------------------------------------
(* Claim about the state file, checked under SpecState *)

\* C19: load_state returns the set last passed to save_state, whatever was
\* saved before, and the empty set when there is no state file.
C19_RoundTrip ==
    op = "load_state" =>
        /\ state.exists => out = saved
        /\ ~state.exists => out = {}

\* a set of two names read back
C19_Witness ==
    /\ op = "load_state"
    /\ Cardinality(out) = 2
    /\ out = saved

\* nothing saved yet
C19_WitnessNoFile ==
    /\ op = "load_state"
    /\ ~state.exists

----------------------------------------------------------------------------
(* Claim about generate_outputs, checked under SpecOutputs *)

\* the session instances of a table
Sessions(t) ==
    {<<t[i].session_name, t[i].session_date, t[i].session_day_of_week>> :
        i \in DOMAIN t}

SessionOf(r) == <<r.session_name, r.session_date, r.session_day_of_week>>

\* C20 as stated: the rollup has exactly one row for every session instance of
\* the detail table, with the sum of attended over its records, and its rows
\* are in ascending order of (session_date, session_name).
C20_OneRowPerSession ==
    op = "generate_outputs" =>
        /\ \A g \in Sessions(frame) :
             /\ Cardinality({i \in DOMAIN rollup.rows : SessionOf(rollup.rows[i]) = g}) = 1
             /\ \A i \in DOMAIN rollup.rows :
                  SessionOf(rollup.rows[i]) = g =>
                     rollup.rows[i].attended =
                        SumAttended(SelectSeq(frame, LAMBDA r : SessionOf(r) = g))
        /\ \A i \in DOMAIN rollup.rows : SessionOf(rollup.rows[i]) \in Sessions(frame)
        /\ \A i, j \in DOMAIN rollup.rows : i < j =>
             \/ rollup.rows[i].session_date < rollup.rows[j].session_date
             \/ /\ rollup.rows[i].session_date = rollup.rows[j].session_date
                /\ ~ValueLess(rollup.rows[j].session_name, rollup.rows[i].session_name)

\* C20 for the tables in which no session name is missing
C20_NamedSessions ==
    (\A i \in DOMAIN frame : frame[i].session_name # NaN) => C20_OneRowPerSession

----------------------------------------------------------------------------
(* Claims about apply_name_mappings, checked under SpecMapping *)

\* C21: apply_name_mappings returns a table of the same length in which a
\* record's session_name is its mapping entry when the name is a key whose value
\* is not the skip sentinel, and is unchanged otherwise; no other field
\* changes, and the table passed in is not modified.
C21_MapsActiveKeysOnly ==
    [][op' = "apply_name_mappings" =>
        /\ frame' = frame
        /\ Len(out') = Len(frame)
        /\ \A i \in DOMAIN frame :
             /\ out'[i].session_name =
                  IF /\ frame[i].session_name \in DOMAIN mappings'
                     /\ mappings'[frame[i].session_name] # SKIP_SENTINEL
                  THEN mappings'[frame[i].session_name]
                  ELSE frame[i].session_name
             /\ out'[i] = [frame[i] EXCEPT !.session_name = out'[i].session_name]
    ]_vars

\* a table with a mapped name, a skipped name and a name that is no key
C21_Witness ==
    /\ op = "apply_name_mappings"
    /\ "Swim!" \in DOMAIN mappings /\ mappings["Swim!"] = "Swim"
    /\ "Swim" \in DOMAIN mappings /\ mappings["Swim"] = SKIP_SENTINEL
    /\ {"Swim!", "Swim", "Run"} \subseteq session_names_of(frame)
    /\ session_names_of(out) = {"Swim", "Run"}

\* C26 as stated: applying the unchanged mapping table to the table it has
\* already mapped changes no session_name, also when a mapping value is a key of
\* another entry.
C26_Idempotent ==
    op = "apply_name_mappings again" => out = existing

\* the values of the entries that rename, and the keys that rename
ActiveValues(m) == {m[x] : x \in {y \in DOMAIN m : m[y] # SKIP_SENTINEL}}

RenamingKeys(m) == {x \in DOMAIN m : m[x] \notin {SKIP_SENTINEL, x}}

\* C26 for the mapping tables in which no value is a key that renames
C26_IdempotentNoChain ==
    (ActiveValues(mappings) \cap RenamingKeys(mappings) = {}) => C26_Idempotent

----------------------------------------------------------------------------
(* Claims about the table a run writes after name mapping, checked under   *)
(* Spec                                                                    *)

\* C22 as stated: the detail table a run has written holds at most one record
\* per (name, session_name, session_date), also after the name mapping has given
\* two raw names the same canonical name.
C22_OneRecordPerKey ==
    "detail" \in lastRun.wrote =>
        \A i, j \in DOMAIN detail.rows :
            Key(detail.rows[i]) = Key(detail.rows[j]) => i = j

\* C22 for the runs after which no name mapping has been applied
C22_OneRecordPerKeyUnmapped ==
    ("detail" \in lastRun.wrote /\ ~renamed) =>
        \A i, j \in DOMAIN detail.rows :
            Key(detail.rows[i]) = Key(detail.rows[j]) => i = j

\* C23 as stated: the detail table a run has written is in ascending order of
\* (session_date, session_name, name), with the session names as written.
C23_WrittenSorted ==
    "detail" \in lastRun.wrote =>
        \A i \in 1..(Len(detail.rows) - 1) :
            C6_TupleLeq(read_csv_row(detail.rows[i]), read_csv_row(detail.rows[i + 1]))

\* C23 for the runs after which no name mapping has been applied
C23_WrittenSortedUnmapped ==
    ("detail" \in lastRun.wrote /\ ~renamed) =>
        \A i \in 1..(Len(detail.rows) - 1) :
            C6_TupleLeq(read_csv_row(detail.rows[i]), read_csv_row(detail.rows[i + 1]))

----------------------------------------------------------------------------
(* Claims about the state file and full refresh, checked under SpecDir *)

\* C25: after a run that has saved the state file, the recorded set holds every
\* file of the input directory; the set an incremental run saves is the set
\* recorded before united with its batch, so it loses no recorded name.
C25_StateCoversDirectory ==
    [][lastRun'.outcome = "done" =>
        /\ inputDir \subseteq load_state(state')
        /\ ~lastRun'.full_refresh =>
             /\ load_state(state') = load_state(state) \cup RowsOf(lastRun'.processed)
             /\ load_state(state) \subseteq load_state(state')
    ]_vars

\* an incremental run has processed a new file and kept the recorded name of a
\* file that is no longer in the directory
C25_Witness ==
    /\ lastRun.outcome = "done"
    /\ ~lastRun.full_refresh
    /\ Len(lastRun.processed) = 1
    /\ load_state(state) \ inputDir # {}

\* the detail tables a full refresh can write for a directory: the files
\* discovered now, processed and mapped
RefreshedDetails(dir, day, m) ==
    {to_csv(apply_name_mappings(t, m)) :
        t \in UNION {process_files(all_files, day).tables :
                        all_files \in discover_files(dir).files}}

\* C29: the detail table a full-refresh run writes is the one derived from the
\* files discovered now, whatever the state file and the detail table held, and
\* the state it saves is exactly the set of discovered file names.
C29_FullRefreshStartsOver ==
    [][lastRun'.full_refresh =>
        /\ "detail" \in lastRun'.wrote =>
             detail' \in RefreshedDetails(inputDir, today, mappings')
        /\ lastRun'.outcome = "done" => load_state(state') = inputDir
    ]_vars

\* a full refresh has written the detail table without Bo, whose records came
\* from an export that is recorded but no longer in the directory
C29_Witness ==
    /\ lastRun.full_refresh
    /\ "detail" \in lastRun.wrote
    /\ "spond_attendance_jan_25.xlsx" \in load_state(state) \ inputDir
    /\ detail.rows # <<>>
    /\ \A i \in DOMAIN detail.rows : detail.rows[i].name # "Bo"

\* a full refresh has saved the state for the one export left
C29_WitnessState ==
    /\ lastRun.full_refresh
    /\ lastRun.outcome = "done"
    /\ inputDir = {"spond_attendance_feb_25.xlsx"}
    /\ load_state(state) = inputDir
    /\ renamed

----------------------------------------------------------------------------
(* Claims about the runs, checked under Spec (continued) *)

\* C27 as stated: whatever the collaborator suggests and the user answers, every
\* entry of the mapping table before a run is in it with the same value after
\* the run.
C27_EntriesKept ==
    [][\A x \in DOMAIN mappings :
          x \in DOMAIN mappings' /\ mappings'[x] = mappings[x]]_vars

\* C27 for the keys alone: a run removes no key of the mapping table
C27_KeysKept ==
    [][DOMAIN mappings \subseteq DOMAIN mappings']_vars

\* the last run was incremental, succeeded, and its batch is newer than every
\* file recorded before; no run has failed and no name mapping has been applied
NewerBatchDone ==
    /\ lastRun.outcome = "done"
    /\ ~lastRun.full_refresh
    /\ ~renamed
    /\ failures = 0
    /\ load_state(state) = inputDir
    /\ \A f \in RowsOf(lastRun.processed), g \in inputDir \ RowsOf(lastRun.processed) :
         /\ DateLeq(parse_file_date(g), parse_file_date(f))
         /\ ~DateLeq(parse_file_date(f), parse_file_date(g))

\* C24 as stated: after incremental runs that each added newer files, the detail
\* table is the one a full refresh over all the files writes on the day of the
\* last run, while no name mapping is active.
C24_IncrementalEqualsRefresh ==
    NewerBatchDone => detail \in RefreshedDetails(inputDir, today, EmptyDict)

\* C24 for the runs made before the day has changed
C24_SameDay ==
    (NewerBatchDone /\ today = 2) => detail \in RefreshedDetails(inputDir, today, EmptyDict)

\* C28 at the level of the runs: an incremental run whose batch brings only keys
\* the detail table holds writes the detail table it has read, while no name
\* mapping has been applied.
C28_RerunKeepsDetail ==
    [][(/\ ~lastRun'.full_refresh
        /\ "detail" \in lastRun'.wrote
        /\ ~renamed'
        /\ detail.exists
        /\ \A i \in DOMAIN lastRun'.processed :
             \A k \in KeysOf(Frames[lastRun'.processed[i]].rows) :
                k[3] < today => k \in KeysOf(read_csv(detail))) =>
        detail' = detail
    ]_vars

\* the key of a record as spond.csv holds it
WrittenKey(k) == <<to_csv_value(k[1]), to_csv_value(k[2]), k[3]>>

\* C28 as stated: an incremental run whose batch brings only records that
\* spond.csv holds writes the detail table it has found, while no name mapping
\* has been applied.
C28_ReprocessingKeepsDetail ==
    [][(/\ ~lastRun'.full_refresh
        /\ "detail" \in lastRun'.wrote
        /\ ~renamed'
        /\ detail.exists
        /\ \A i \in DOMAIN lastRun'.processed :
             \A k \in KeysOf(Frames[lastRun'.processed[i]].rows) :
                k[3] < today => WrittenKey(k) \in KeysOf(detail.rows)) =>
        detail' = detail
    ]_vars

----------------------------------------------------------------------------
(* Claim about merge_with_existing, checked under SpecTable (continued) *)

\* a table as a run without name mapping has written it today: past dates, one
\* record per key, sorted
WrittenToday(t) ==
    /\ \A i \in DOMAIN t : t[i].session_date < today
    /\ \A i, j \in DOMAIN t : Key(t[i]) = Key(t[j]) => i = j
    /\ \A i \in 1..(Len(t) - 1) : C6_TupleLeq(t[i], t[i + 1])

\* C28: merging new data whose keys are all in the existing table, written
\* today, returns the existing table.
C28_MergeOfKnownKeys ==
    (/\ op = "merge_with_existing"
     /\ WrittenToday(existing)
     /\ KeysOf(new) \subseteq KeysOf(existing)) => out = existing

\* the new data disagrees with the existing table on a key
C28_Witness ==
    /\ op = "merge_with_existing"
    /\ WrittenToday(existing)
    /\ Len(existing) >= 2
    /\ new # <<>>
    /\ KeysOf(new) \subseteq KeysOf(existing)
    /\ \E i \in DOMAIN existing, j \in DOMAIN new :
         Key(existing[i]) = Key(new[j]) /\ existing[i].attended # new[j].attended
    /\ out = existing

----------------------------------------------------------------------------
(* Claim about two sessions of one name on one day, checked under          *)
(* SpecSameDay                                                             *)

\* C30 as stated: when an export has two session columns with the same display
\* name on the same date, the one record kept for a member and that key has
\* attended 1 if the member attended either session.
C30_NoAttendanceLost ==
    op = "process_files" =>
        \A k \in KeysOf(df) :
            /\ CountKey(out, k) = 1
            /\ (1 \in AttendedOf(df, k)) => AttendedOf(out, k) = {1}

\* C30 weakened: the record kept has the attended value of one of the columns
C30_OneColumnKept ==
    op = "process_files" =>
        \A k \in KeysOf(df) :
            /\ CountKey(out, k) = 1
            /\ AttendedOf(out, k) \subseteq AttendedOf(df, k)

====
